---- MODULE Spec2Model ----
(***************************************************************************)
(* Model of plugin_mediacompressor/plugin.py (MediaCompressorPlugin): the  *)
(* hash-keyed cache, its load / prune / save, and the thread pool that     *)
(* runs _process_media_file for every discovered media file.               *)
(***************************************************************************)
EXTENDS Integers, Sequences, FiniteSets, TLC

\* ------------------------------------------------------------- bounds
NumFiles == 2      \* files in the site directory
MaxBytes == 2      \* distinct non-empty file contents
MaxFaults == 1     \* environment faults (I/O errors, external deletions) per behaviour
MaxRuns == 2       \* builds (on_config + on_post_build) per behaviour

\* ------------------------------------------------------ files and bytes
IMAGE_EXTENSIONS == {".png", ".jpg", ".jpeg", ".gif", ".webp", ".bmp"}
VIDEO_EXTENSIONS == {".mp4", ".webm", ".ogg", ".mov", ".avi", ".mkv"}

\* The extensions the files of the modelled tree are drawn from: one image
\* type, one video type and one type on_post_build does not look for.
TreeExtensions == {".jpg", ".mp4", ".html"}

\* A file's content is a number; Truncated is the empty content a file has
\* right after it was opened for writing.
Truncated == 0
Bytes == Truncated..MaxBytes

Files == 1..NumFiles

\* hashlib.sha256 over the whole content: injective on contents.
ComputeFileHash(b) == <<"sha256", b>>

Digests == {ComputeFileHash(b) : b \in Bytes}

\* f"{file_hash}{path.suffix}"
CachedFilename(d, suffix) == <<d, suffix>>

\* PIL / ffmpeg cannot decode an empty file.
Decodable(b) == b # Truncated

\* The encoder's output for a decodable content: deterministic, different
\* from its input except at the content that already is the encoder's output.
Encode(b) == IF b < MaxBytes THEN b + 1 ELSE b

\* -------------------------------------------------------- configuration
None == 0

SnapshotKeys ==
    {"image_quality", "image_max_width", "image_max_height", "video_crf",
     "video_preset", "video_max_width", "skip_images", "skip_videos"}

DefaultConfig ==
    [cache_dir |-> ".mediacompressor_cache",
     image_quality |-> 85,
     image_max_width |-> None,
     image_max_height |-> None,
     video_crf |-> 23,
     video_preset |-> "medium",
     video_max_width |-> None,
     skip_images |-> FALSE,
     skip_videos |-> FALSE,
     max_workers |-> 4]

\* Another value for each setting.
AltConfig ==
    [cache_dir |-> ".cache2",
     image_quality |-> 60,
     image_max_width |-> 1000,
     image_max_height |-> 800,
     video_crf |-> 28,
     video_preset |-> "fast",
     video_max_width |-> 1280,
     skip_images |-> TRUE,
     skip_videos |-> TRUE,
     max_workers |-> 1]

\* DefaultConfig with the settings in D changed.
ConfigWith(D) ==
    [k \in DOMAIN DefaultConfig |-> IF k \in D THEN AltConfig[k] ELSE DefaultConfig[k]]

GetCurrentConfig(cfg) ==
    [image_quality |-> cfg.image_quality,
     image_max_width |-> cfg.image_max_width,
     image_max_height |-> cfg.image_max_height,
     video_crf |-> cfg.video_crf,
     video_preset |-> cfg.video_preset,
     video_max_width |-> cfg.video_max_width,
     skip_images |-> cfg.skip_images,
     skip_videos |-> cfg.skip_videos]

\* ------------------------------------------------------------ the cache
EmptyMap == [d \in {} |-> 0]

\* self.cache: a dict of entries, or whatever else json.load returned for "files".
EmptyCache == [isdict |-> TRUE, map |-> EmptyMap]
NotADict == [isdict |-> FALSE, map |-> EmptyMap]

CacheEntry(d, suffix) ==
    [cached_filename |-> CachedFilename(d, suffix), original_hash |-> d]

\* An entry without its 'cached_filename' key.
EntryNoFilename(d) == [original_hash |-> d]

Put(m, d, e) == [x \in (DOMAIN m) \cup {d} |-> IF x = d THEN e ELSE m[x]]
Drop(m, S) == [x \in (DOMAIN m) \ S |-> m[x]]

VARIABLES
    img,          \* _compress_image: the opened image, its size and new size
    config,       \* self.config: the settings of mkdocs.yml
    cache_file,   \* the content of <cache_dir>/.cache.json
    artifacts,    \* the other files of cache_dir: name -> content
    ext,          \* site_dir: each file's suffix
    bytes,        \* site_dir: each file's content
    cache,        \* self.cache
    cache_lock,   \* self.cache_lock: 0, or the task holding it
    phase,        \* where the main thread is
    run,          \* number of the current build
    pc,           \* where each file's task is
    file_hash,    \* each task's local file_hash
    collected,    \* the futures as_completed has yielded
    processed, skipped, errors,
    saves,        \* calls of _save_cache in this build
    prunes,       \* calls of _clean_orphaned_cache in this build
    loaded,       \* self.cache as _load_cache left it in this build
    bytes0,       \* each file's content when this build started
    faults        \* environment faults so far

vars == <<img, config, cache_file, artifacts, ext, bytes, cache, cache_lock, phase, run,
          pc, file_hash, collected, processed, skipped, errors, saves, prunes,
          loaded, bytes0, faults>>

NoHash == <<"sha256", -1>>

IsImage(f) == ext[f] \in IMAGE_EXTENSIONS
IsVideo(f) == ext[f] \in VIDEO_EXTENSIONS

\* site_dir.rglob over IMAGE_EXTENSIONS | VIDEO_EXTENSIONS
MediaFiles == {f \in Files : ext[f] \in IMAGE_EXTENSIONS \cup VIDEO_EXTENSIONS}

\* ------------------------------------------------ the persisted record
\* What <cache_dir>/.cache.json holds. shape: "absent" (no file),
\* "unparseable" (json.load raises), "notdict" (JSON, but no object),
\* "noconfig" (an object without "config"), "badconfig" (its "config" is no
\* object), "ok" (an object with a "config" object). hasfiles: the object has
\* a "files" key; files: its value.
Record(shape, cfg, hasfiles, files) ==
    [shape |-> shape, config |-> cfg, hasfiles |-> hasfiles, files |-> files]

AbsentRecord == Record("absent", GetCurrentConfig(DefaultConfig), FALSE, EmptyCache)
UnparseableRecord == Record("unparseable", GetCurrentConfig(DefaultConfig), FALSE, EmptyCache)

\* _load_cache without the comparison of the stored snapshot.
LoadCache_NoInvalidation(rec, cfg) ==
    IF rec.shape # "ok" THEN EmptyCache
    ELSE IF rec.hasfiles THEN rec.files ELSE EmptyCache

\* _load_cache: the value of self.cache it leaves.
LoadCache(rec, cfg) ==
    IF rec.shape = "absent" THEN EmptyCache
    ELSE IF rec.shape = "unparseable" THEN EmptyCache
    ELSE IF rec.shape \in {"notdict", "noconfig"} THEN EmptyCache
    ELSE IF rec.shape = "badconfig" THEN EmptyCache
    ELSE IF rec.config # GetCurrentConfig(cfg) THEN EmptyCache
    ELSE IF rec.hasfiles THEN rec.files ELSE EmptyCache

\* _save_cache: the record json.dump writes.
SavedRecord(cfg, c) == Record("ok", GetCurrentConfig(cfg), TRUE, c)

\* _clean_orphaned_cache raises: self.cache has no keys(), or an entry has no
\* 'cached_filename'.
CleanRaises(c, arts) ==
    \/ ~c.isdict
    \/ \E d \in DOMAIN c.map : "cached_filename" \notin DOMAIN c.map[d]

\* _clean_orphaned_cache that deletes nothing.
CleanOrphanedCache_KeepsAll(c, arts) == [isdict |-> TRUE, map |-> c.map]

\* _clean_orphaned_cache: the hashes it deletes, and the cache it leaves.
Orphaned(c, arts) ==
    {d \in DOMAIN c.map : c.map[d].cached_filename \notin DOMAIN arts}

CleanOrphanedCache(c, arts) ==
    [isdict |-> TRUE, map |-> Drop(c.map, Orphaned(c, arts))]

\* ------------------------------------------------------------- initial
NoArtifacts == [n \in {} |-> 0]

\* No image is open.
NoImage == [size |-> <<1, 1>>, out |-> <<1, 1>>, state |-> "none"]

InitTasks ==
    /\ img = NoImage
    /\ cache_lock = 0
    /\ pc = [f \in Files |-> "idle"]
    /\ file_hash = [f \in Files |-> NoHash]
    /\ collected = {}
    /\ processed = 0 /\ skipped = 0 /\ errors = 0
    /\ saves = 0 /\ prunes = 0

\* A tree of NumFiles files; a fresh cache directory.
Init ==
    /\ config \in {ConfigWith(D) : D \in SUBSET {"skip_images", "skip_videos", "max_workers"}}
    /\ cache_file = AbsentRecord
    /\ artifacts = NoArtifacts
    /\ ext \in [Files -> TreeExtensions]
    /\ bytes \in [Files -> Bytes]
    /\ \A f \in Files : ext[f] = ".html" => bytes[f] = MaxBytes
    /\ cache = EmptyCache
    /\ loaded = EmptyCache
    /\ phase = "config"
    /\ run = 1
    /\ bytes0 = bytes
    /\ faults = 0
    /\ InitTasks

\* ---------------------------------------------------- the main thread
\* on_config: _load_cache.
OnConfig ==
    /\ phase = "config"
    /\ cache' = LoadCache(cache_file, config)
    /\ loaded' = LoadCache(cache_file, config)
    /\ phase' = "built"
    /\ UNCHANGED <<img, config, cache_file, artifacts, ext, bytes, cache_lock, run, pc,
                   file_hash, collected, processed, skipped, errors, saves, prunes,
                   bytes0, faults>>

\* on_post_build without "if not media_files: return".
FindMedia_NoReturn ==
    /\ phase = "built"
    /\ phase' = "clean"
    /\ UNCHANGED <<img, config, cache_file, artifacts, ext, bytes, cache, cache_lock, run,
                   pc, file_hash, collected, processed, skipped, errors, saves, prunes,
                   loaded, bytes0, faults>>

\* on_post_build up to "if not media_files: return".
FindMedia ==
    /\ phase = "built"
    /\ phase' = IF MediaFiles = {} THEN "done" ELSE "clean"
    /\ UNCHANGED <<img, config, cache_file, artifacts, ext, bytes, cache, cache_lock, run,
                   pc, file_hash, collected, processed, skipped, errors, saves, prunes,
                   loaded, bytes0, faults>>

\* on_post_build: self._clean_orphaned_cache(), which may raise out of
\* on_post_build.
CleanOrphans ==
    /\ phase = "clean"
    /\ prunes' = prunes + 1
    /\ IF CleanRaises(cache, artifacts)
       THEN /\ phase' = "aborted"
            /\ UNCHANGED cache
       ELSE /\ phase' = "submit"
            /\ cache' = CleanOrphanedCache(cache, artifacts)
    /\ UNCHANGED <<img, config, cache_file, artifacts, ext, bytes, cache_lock, run, pc,
                   file_hash, collected, processed, skipped, errors, saves, loaded,
                   bytes0, faults>>

\* on_post_build: executor.submit for every media file.
Submit ==
    /\ phase = "submit"
    /\ pc' = [f \in Files |-> IF f \in MediaFiles THEN "pending" ELSE "idle"]
    /\ phase' = "collect"
    /\ UNCHANGED <<img, config, cache_file, artifacts, ext, bytes, cache, cache_lock, run,
                   file_hash, collected, processed, skipped, errors, saves, prunes,
                   loaded, bytes0, faults>>

Returned == {"ret_disabled", "ret_hit", "ret_done", "ret_failed"}
Finished == Returned \cup {"raised"}

\* The loop without its try/except: the task's exception leaves on_post_build.
Collect_Propagates(f) ==
    /\ phase = "collect"
    /\ f \notin collected
    /\ pc[f] \in Finished
    /\ collected' = collected \cup {f}
    /\ IF pc[f] = "raised"
       THEN /\ phase' = "aborted"
            /\ UNCHANGED <<processed, skipped, errors>>
       ELSE IF pc[f] = "ret_done"
       THEN /\ processed' = processed + 1
            /\ UNCHANGED <<skipped, errors, phase>>
       ELSE /\ skipped' = skipped + 1
            /\ UNCHANGED <<processed, errors, phase>>
    /\ UNCHANGED <<img, config, cache_file, artifacts, ext, bytes, cache, cache_lock, run,
                   pc, file_hash, saves, prunes, loaded, bytes0, faults>>

\* on_post_build: one turn of "for future in as_completed(...)".
Collect(f) ==
    /\ phase = "collect"
    /\ f \notin collected
    /\ pc[f] \in Finished
    /\ collected' = collected \cup {f}
    /\ IF pc[f] = "raised"
       THEN /\ errors' = errors + 1
            /\ UNCHANGED <<processed, skipped>>
       ELSE IF pc[f] = "ret_done"
       THEN /\ processed' = processed + 1
            /\ UNCHANGED <<skipped, errors>>
       ELSE /\ skipped' = skipped + 1
            /\ UNCHANGED <<processed, errors>>
    /\ UNCHANGED <<img, config, cache_file, artifacts, ext, bytes, cache, cache_lock, phase,
                   run, pc, file_hash, saves, prunes, loaded, bytes0, faults>>

\* _save_cache called as soon as one future has been collected.
SaveCache_Early ==
    /\ phase = "collect"
    /\ collected # {}
    /\ saves' = saves + 1
    /\ phase' = "done"
    /\ cache_file' = SavedRecord(config, cache)
    /\ UNCHANGED <<img, config, artifacts, ext, bytes, cache, cache_lock, run, pc,
                   file_hash, collected, processed, skipped, errors, prunes, loaded,
                   bytes0, faults>>

\* _save_cache without its try/except: a failed write leaves on_post_build.
SaveCache_Fatal ==
    /\ phase = "collect"
    /\ collected = MediaFiles
    /\ saves' = saves + 1
    /\ \/ /\ cache_file' = SavedRecord(config, cache)
          /\ phase' = "done"
          /\ UNCHANGED faults
       \/ /\ faults < MaxFaults
          /\ faults' = faults + 1
          /\ phase' = "aborted"
          /\ cache_file' \in {cache_file, UnparseableRecord}
    /\ UNCHANGED <<img, config, artifacts, ext, bytes, cache, cache_lock, run, pc,
                   file_hash, collected, processed, skipped, errors, prunes, loaded,
                   bytes0>>

\* on_post_build: self._save_cache() after the pool has shut down. The write
\* may fail (caught in _save_cache), leaving the old record or a cut-off one.
SaveCache ==
    /\ phase = "collect"
    /\ collected = MediaFiles
    /\ saves' = saves + 1
    /\ phase' = "done"
    /\ \/ /\ cache_file' = SavedRecord(config, cache)
          /\ UNCHANGED faults
       \/ /\ faults < MaxFaults
          /\ faults' = faults + 1
          /\ cache_file' \in {cache_file, UnparseableRecord}
    /\ UNCHANGED <<img, config, artifacts, ext, bytes, cache, cache_lock, run, pc,
                   file_hash, collected, processed, skipped, errors, prunes, loaded,
                   bytes0>>

\* The next build of the same, unmodified tree under the same configuration.
NextBuild ==
    /\ phase = "done"
    /\ run < MaxRuns
    /\ run' = run + 1
    /\ phase' = "config"
    /\ bytes0' = bytes
    /\ cache_lock' = 0
    /\ pc' = [f \in Files |-> "idle"]
    /\ file_hash' = [f \in Files |-> NoHash]
    /\ collected' = {}
    /\ processed' = 0 /\ skipped' = 0 /\ errors' = 0
    /\ saves' = 0 /\ prunes' = 0
    /\ UNCHANGED <<img, config, cache_file, artifacts, ext, bytes, cache, loaded, faults>>

\* ------------------------------------------------- _process_media_file
\* The tasks a pool thread is running.
Running == {f \in Files : pc[f] \notin {"idle", "pending"} \cup Finished}

\* The skip test without its second "if".
Disabled_ImagesOnly(f) == IsImage(f) /\ config.skip_images

\* "if ext in IMAGE_EXTENSIONS and self.config['skip_images']" and its twin.
Disabled(f) ==
    \/ IsImage(f) /\ config.skip_images
    \/ IsVideo(f) /\ config.skip_videos

\* A pool thread takes the task and runs it up to the hash.
TaskStart(f) ==
    /\ phase = "collect"
    /\ pc[f] = "pending"
    /\ Cardinality(Running) < config.max_workers
    /\ pc' = [pc EXCEPT ![f] = IF Disabled(f) THEN "ret_disabled" ELSE "hash"]
    /\ UNCHANGED <<img, config, cache_file, artifacts, ext, bytes, cache, cache_lock, phase,
                   run, file_hash, collected, processed, skipped, errors, saves,
                   prunes, loaded, bytes0, faults>>

\* file_hash = self._compute_file_hash(media_file); open() may raise.
Hash(f) ==
    /\ pc[f] = "hash"
    /\ \/ /\ file_hash' = [file_hash EXCEPT ![f] = ComputeFileHash(bytes[f])]
          /\ pc' = [pc EXCEPT ![f] = "lookup"]
          /\ UNCHANGED faults
       \/ /\ faults < MaxFaults
          /\ faults' = faults + 1
          /\ pc' = [pc EXCEPT ![f] = "raised"]
          /\ UNCHANGED file_hash
    /\ UNCHANGED <<img, config, cache_file, artifacts, ext, bytes, cache, cache_lock, phase,
                   run, collected, processed, skipped, errors, saves, prunes, loaded,
                   bytes0>>

\* A task that keeps the lock after a missed lookup, the backend running
\* inside the "with" block.
Lookup_HoldsLock(f) ==
    /\ pc[f] = "lookup"
    /\ cache_lock = 0
    /\ cache_lock' = f
    /\ pc' = [pc EXCEPT ![f] = IF file_hash[f] \in DOMAIN cache.map THEN "exists" ELSE "compress"]
    /\ UNCHANGED <<img, config, cache_file, artifacts, ext, bytes, cache, phase, run,
                   file_hash, collected, processed, skipped, errors, saves, prunes,
                   loaded, bytes0, faults>>

\* "with self.cache_lock: if file_hash in self.cache": on a miss the lock is
\* released at once, on a hit it stays held.
Lookup(f) ==
    /\ pc[f] = "lookup"
    /\ cache_lock = 0
    /\ IF file_hash[f] \in DOMAIN cache.map
       THEN /\ cache_lock' = f
            /\ pc' = [pc EXCEPT ![f] = "exists"]
       ELSE /\ cache_lock' = 0
            /\ pc' = [pc EXCEPT ![f] = "compress"]
    /\ UNCHANGED <<img, config, cache_file, artifacts, ext, bytes, cache, phase, run,
                   file_hash, collected, processed, skipped, errors, saves, prunes,
                   loaded, bytes0, faults>>

\* The hit path without "if cached_file.exists()".
HitExists_NoCheck(f) ==
    /\ pc[f] = "exists"
    /\ pc' = [pc EXCEPT ![f] = "hitcopy"]
    /\ UNCHANGED <<img, config, cache_file, artifacts, ext, bytes, cache, cache_lock, phase,
                   run, file_hash, collected, processed, skipped, errors, saves,
                   prunes, loaded, bytes0, faults>>

\* "if cached_file.exists()", the lock held.
HitExists(f) ==
    /\ pc[f] = "exists"
    /\ IF cache.map[file_hash[f]].cached_filename \in DOMAIN artifacts
       THEN /\ pc' = [pc EXCEPT ![f] = "hitcopy"]
            /\ UNCHANGED cache_lock
       ELSE /\ pc' = [pc EXCEPT ![f] = "compress"]
            /\ cache_lock' = 0
    /\ UNCHANGED <<img, config, cache_file, artifacts, ext, bytes, cache, phase, run,
                   file_hash, collected, processed, skipped, errors, saves, prunes,
                   loaded, bytes0, faults>>

\* shutil.copy2(source, media_file): raises when the source is gone or the
\* destination cannot be written.
CopyOver(f, name, ok, failed) ==
    \/ /\ name \in DOMAIN artifacts
       /\ bytes' = [bytes EXCEPT ![f] = artifacts[name]]
       /\ pc' = [pc EXCEPT ![f] = ok]
       /\ UNCHANGED faults
    \/ /\ name \notin DOMAIN artifacts
       /\ pc' = [pc EXCEPT ![f] = failed]
       /\ UNCHANGED <<bytes, faults>>
    \/ /\ faults < MaxFaults
       /\ faults' = faults + 1
       /\ pc' = [pc EXCEPT ![f] = failed]
       /\ UNCHANGED bytes

\* A hit path that ends with "return True".
HitCopy_ReturnsTrue(f) ==
    /\ pc[f] = "hitcopy"
    /\ CopyOver(f, cache.map[file_hash[f]].cached_filename, "ret_done", "raised")
    /\ cache_lock' = 0
    /\ UNCHANGED <<img, config, cache_file, artifacts, ext, cache, phase, run, file_hash,
                   collected, processed, skipped, errors, saves, prunes, loaded,
                   bytes0>>

\* A hit path with acquire() and release() in place of "with": an exception
\* of the copy leaves the lock held.
HitCopy_KeepsLockOnRaise(f) ==
    /\ pc[f] = "hitcopy"
    /\ CopyOver(f, cache.map[file_hash[f]].cached_filename, "ret_hit", "raised")
    /\ cache_lock' = IF pc'[f] = "raised" THEN f ELSE 0
    /\ UNCHANGED <<img, config, cache_file, artifacts, ext, cache, phase, run, file_hash,
                   collected, processed, skipped, errors, saves, prunes, loaded,
                   bytes0>>

\* "shutil.copy2(cached_file, media_file); return False", the lock held and
\* released on the way out.
HitCopy(f) ==
    /\ pc[f] = "hitcopy"
    /\ CopyOver(f, cache.map[file_hash[f]].cached_filename, "ret_hit", "raised")
    /\ cache_lock' = 0
    /\ UNCHANGED <<img, config, cache_file, artifacts, ext, cache, phase, run, file_hash,
                   collected, processed, skipped, errors, saves, prunes, loaded,
                   bytes0>>

\* A backend that opens its output file before it decodes the source.
CompressStart_LeavesOutput(f) ==
    /\ pc[f] = "compress"
    /\ artifacts' = Put(artifacts, CachedFilename(file_hash[f], ext[f]), Truncated)
    /\ pc' = [pc EXCEPT ![f] = IF Decodable(bytes[f]) THEN "encoding" ELSE "ret_failed"]
    /\ UNCHANGED <<img, config, cache_file, ext, bytes, cache, cache_lock, phase, run,
                   file_hash, collected, processed, skipped, errors, saves, prunes,
                   loaded, bytes0, faults>>

\* A task that goes on to the insert whatever the backend returned.
CompressStart_InsertsOnFailure(f) ==
    /\ pc[f] = "compress"
    /\ \/ /\ Decodable(bytes[f])
          /\ artifacts' = Put(artifacts, CachedFilename(file_hash[f], ext[f]), Truncated)
          /\ pc' = [pc EXCEPT ![f] = "encoding"]
          /\ UNCHANGED faults
       \/ /\ ~Decodable(bytes[f])
          /\ pc' = [pc EXCEPT ![f] = "insert"]
          /\ UNCHANGED <<artifacts, faults>>
       \/ /\ IsVideo(f)
          /\ faults < MaxFaults
          /\ faults' = faults + 1
          /\ pc' = [pc EXCEPT ![f] = "insert"]
          /\ UNCHANGED artifacts
    /\ UNCHANGED <<img, config, cache_file, ext, bytes, cache, cache_lock, phase, run,
                   file_hash, collected, processed, skipped, errors, saves, prunes,
                   loaded, bytes0>>

\* _compress_image / _compress_video up to the opening of the output file:
\* a source that cannot be decoded gives None, and so does ffmpeg when it is
\* not found or exits non-zero.
CompressStart(f) ==
    /\ pc[f] = "compress"
    /\ \/ /\ Decodable(bytes[f])
          /\ artifacts' = Put(artifacts, CachedFilename(file_hash[f], ext[f]), Truncated)
          /\ pc' = [pc EXCEPT ![f] = "encoding"]
          /\ UNCHANGED faults
       \/ /\ ~Decodable(bytes[f])
          /\ pc' = [pc EXCEPT ![f] = "ret_failed"]
          /\ UNCHANGED <<artifacts, faults>>
       \/ /\ IsVideo(f)
          /\ faults < MaxFaults
          /\ faults' = faults + 1
          /\ pc' = [pc EXCEPT ![f] = "ret_failed"]
          /\ UNCHANGED artifacts
    /\ UNCHANGED <<img, config, cache_file, ext, bytes, cache, cache_lock, phase, run,
                   file_hash, collected, processed, skipped, errors, saves, prunes,
                   loaded, bytes0>>

\* A task that runs the backend again when its output file is not there.
CompressEnd_Retry(f) ==
    /\ pc[f] = "encoding"
    /\ IF CachedFilename(file_hash[f], ext[f]) \in DOMAIN artifacts
       THEN /\ artifacts' = Put(artifacts, CachedFilename(file_hash[f], ext[f]),
                                Encode(bytes[f]))
            /\ pc' = [pc EXCEPT ![f] = "insert"]
       ELSE /\ pc' = [pc EXCEPT ![f] = "compress"]
            /\ UNCHANGED artifacts
    /\ UNCHANGED <<img, config, cache_file, ext, bytes, cache, cache_lock, phase, run,
                   file_hash, collected, processed, skipped, errors, saves, prunes,
                   loaded, bytes0, faults>>

\* The encoder finishes the output file and the backend returns its path;
\* "if compressed_file and compressed_file.exists()".
CompressEnd(f) ==
    /\ pc[f] = "encoding"
    /\ IF CachedFilename(file_hash[f], ext[f]) \in DOMAIN artifacts
       THEN /\ artifacts' = Put(artifacts, CachedFilename(file_hash[f], ext[f]),
                                Encode(bytes[f]))
            /\ pc' = [pc EXCEPT ![f] = "insert"]
       ELSE /\ pc' = [pc EXCEPT ![f] = "ret_failed"]
            /\ UNCHANGED artifacts
    /\ UNCHANGED <<img, config, cache_file, ext, bytes, cache, cache_lock, phase, run,
                   file_hash, collected, processed, skipped, errors, saves, prunes,
                   loaded, bytes0, faults>>

\* The insert without "with self.cache_lock".
Insert_NoLock(f) ==
    /\ pc[f] = "insert"
    /\ cache' = [cache EXCEPT !.map = Put(@, file_hash[f], CacheEntry(file_hash[f], ext[f]))]
    /\ pc' = [pc EXCEPT ![f] = "replace"]
    /\ UNCHANGED <<img, config, cache_file, artifacts, ext, bytes, cache_lock, phase, run,
                   file_hash, collected, processed, skipped, errors, saves, prunes,
                   loaded, bytes0, faults>>

\* "with self.cache_lock: self.cache[file_hash] = {...}"
Insert(f) ==
    /\ pc[f] = "insert"
    /\ cache_lock = 0
    /\ cache' = [cache EXCEPT !.map = Put(@, file_hash[f], CacheEntry(file_hash[f], ext[f]))]
    /\ pc' = [pc EXCEPT ![f] = "replace"]
    /\ UNCHANGED <<img, config, cache_file, artifacts, ext, bytes, cache_lock, phase, run,
                   file_hash, collected, processed, skipped, errors, saves, prunes,
                   loaded, bytes0, faults>>

\* "shutil.copy2(compressed_file, media_file) ... return True"
Replace(f) ==
    /\ pc[f] = "replace"
    /\ CopyOver(f, CachedFilename(file_hash[f], ext[f]), "ret_done", "raised")
    /\ UNCHANGED <<img, config, cache_file, artifacts, ext, cache, cache_lock, phase, run,
                   file_hash, collected, processed, skipped, errors, saves, prunes,
                   loaded, bytes0>>

\* ------------------------------------------------------ the environment
\* Someone outside the plugin deletes a file of the cache directory while the
\* pool is at work.
DeleteArtifact(name) ==
    /\ phase \in {"submit", "collect"}
    /\ faults < MaxFaults
    /\ name \in DOMAIN artifacts
    /\ faults' = faults + 1
    /\ artifacts' = Drop(artifacts, {name})
    /\ UNCHANGED <<img, config, cache_file, ext, bytes, cache, cache_lock, phase, run, pc,
                   file_hash, collected, processed, skipped, errors, saves, prunes,
                   loaded, bytes0>>

Task(f) ==
    \/ TaskStart(f)
    \/ Hash(f)
    \/ Lookup(f)
    \/ HitExists(f)
    \/ HitCopy(f)
    \/ CompressStart(f)
    \/ CompressEnd(f)
    \/ Insert(f)
    \/ Replace(f)

Next ==
    \/ OnConfig
    \/ FindMedia
    \/ CleanOrphans
    \/ Submit
    \/ \E f \in Files : Task(f)
    \/ \E f \in Files : Collect(f)
    \/ SaveCache
    \/ NextBuild
    \/ \E name \in DOMAIN artifacts : DeleteArtifact(name)

Spec == Init /\ [][Next]_vars

\* ------------------------------------------- builds over a found record
\* The values "files" may have in a record someone else wrote.
StoredFiles ==
    {EmptyCache,
     NotADict,
     [isdict |-> TRUE,
      map |-> [d \in {ComputeFileHash(MaxBytes)} |-> CacheEntry(d, ".jpg")]],
     [isdict |-> TRUE,
      map |-> [d \in {ComputeFileHash(MaxBytes)} |-> EntryNoFilename(d)]],
     [isdict |-> TRUE,
      map |-> [d \in Digests \ {ComputeFileHash(Truncated)} |-> CacheEntry(d, ".mp4")]]}

\* The snapshots a stored record may carry: the default settings, with one
\* recognized setting changed, or with all of them changed.
StoredSnapshots ==
    {GetCurrentConfig(ConfigWith(D)) :
        D \in {{}, SnapshotKeys} \cup {{k} : k \in SnapshotKeys}}

StoredRecords ==
    {AbsentRecord, UnparseableRecord}
    \cup {Record(s, GetCurrentConfig(DefaultConfig), h, fs) :
            s \in {"notdict", "noconfig", "badconfig"}, h \in {TRUE}, fs \in StoredFiles}
    \cup {Record("ok", c, h, fs) :
            c \in StoredSnapshots, h \in BOOLEAN, fs \in StoredFiles}

\* A cache directory left by earlier builds (or by someone else), and a tree
\* of one image and NumFiles - 1 videos, or a tree without any media file.
InitLoad ==
    /\ config \in {ConfigWith(D) :
                        D \in SUBSET {"image_quality", "skip_videos", "cache_dir", "max_workers"}}
    /\ cache_file \in StoredRecords
    /\ artifacts \in {NoArtifacts,
                      [n \in {CachedFilename(ComputeFileHash(MaxBytes), x) : x \in {".jpg", ".mp4"}}
                          |-> Encode(MaxBytes)]}
    /\ ext \in {[f \in Files |-> IF f = 1 THEN ".jpg" ELSE ".mp4"],
                [f \in Files |-> ".html"]}
    /\ bytes = [f \in Files |-> MaxBytes]
    /\ cache = EmptyCache
    /\ loaded = EmptyCache
    /\ phase = "config"
    /\ run = 1
    /\ bytes0 = bytes
    /\ faults = 0
    /\ InitTasks

\* on_config, and on_post_build up to the submission of the tasks.
NextLoad ==
    \/ OnConfig
    \/ FindMedia
    \/ CleanOrphans
    \/ Submit

SpecLoad == InitLoad /\ [][NextLoad]_vars

\* ---------------------------------------- the resize of _compress_image
MaxDim == 6

\* Widths and heights of images, and the values of image_max_width and
\* image_max_height: small ones, and some of the size of a photograph.
ImageDims == 1..MaxDim \cup {500, 1000, 2000, 4000}
MaxBounds == {None} \cup ImageDims

RECURSIVE GCD(_, _)
GCD(a, b) == IF b = 0 THEN a ELSE GCD(b, a % b)

RECURSIVE IsPowerOfTwo(_)
IsPowerOfTwo(n) == n = 1 \/ (n % 2 = 0 /\ IsPowerOfTwo(n \div 2))

\* A scale factor is a ratio <<numerator, denominator>>; "scale = 1.0".
Unscaled == <<1, 1>>

RatLess(a, b) == a[1] * b[2] < b[1] * a[2]

\* min(a, b) of two ratios.
RatMin(a, b) == IF RatLess(b, a) THEN b ELSE a

\* The scale factor with the test of the height left out.
Scale_WidthOnly(size, max_width, max_height) ==
    IF max_width # None /\ size[1] > max_width
    THEN RatMin(Unscaled, <<max_width, size[1]>>)
    ELSE Unscaled

\* "scale = 1.0; if max_width is not None and width > max_width: scale =
\* min(scale, max_width / width)", and the same for the height.
Scale(size, max_width, max_height) ==
    LET byWidth == IF max_width # None /\ size[1] > max_width
                   THEN RatMin(Unscaled, <<max_width, size[1]>>)
                   ELSE Unscaled
    IN  IF max_height # None /\ size[2] > max_height
        THEN RatMin(byWidth, <<max_height, size[2]>>)
        ELSE byWidth

\* The quotient max / dimension is a binary float: it is exact when the
\* reduced denominator is a power of two.
ExactInFloat(s) == IsPowerOfTwo(s[2] \div GCD(s[1], s[2]))

\* int(x * scale): the product truncated. Where the quotient was rounded and
\* the true product is a whole number, the float product may fall just below
\* it and truncate to one less.
IntOfScaled(x, s) ==
    LET q == (x * s[1]) \div s[2]
    IN  IF (x * s[1]) % s[2] = 0 /\ ~ExactInFloat(s) THEN {q - 1, q} ELSE {q}

\* The size the image has after the resize block.
NewSizes(size, max_width, max_height) ==
    IF max_width # None \/ max_height # None
    THEN LET scale == Scale(size, max_width, max_height)
         IN  IF RatLess(scale, Unscaled)
             THEN IntOfScaled(size[1], scale) \X IntOfScaled(size[2], scale)
             ELSE {size}
    ELSE {size}

\* _compress_image: the resize block on the opened image.
ResizeImage ==
    /\ img.state = "opened"
    /\ \E new_size \in NewSizes(img.size, config.image_max_width, config.image_max_height) :
          img' = [img EXCEPT !.out = new_size, !.state = "sized"]
    /\ UNCHANGED <<config, cache_file, artifacts, ext, bytes, cache, cache_lock, phase,
                   run, pc, file_hash, collected, processed, skipped, errors, saves,
                   prunes, loaded, bytes0, faults>>

\* An image of any size opened by the image backend, under any pair of
\* maximum width and height.
InitResize ==
    /\ config \in {[DefaultConfig EXCEPT !.image_max_width = mw, !.image_max_height = mh] :
                        mw \in MaxBounds, mh \in MaxBounds}
    /\ img \in {[size |-> <<w, h>>, out |-> <<w, h>>, state |-> "opened"] :
                    w \in ImageDims, h \in ImageDims}
    /\ cache_file = AbsentRecord
    /\ artifacts = NoArtifacts
    /\ ext = [f \in Files |-> ".jpg"]
    /\ bytes = [f \in Files |-> MaxBytes]
    /\ cache = EmptyCache
    /\ loaded = EmptyCache
    /\ phase = "collect"
    /\ run = 1
    /\ bytes0 = bytes
    /\ faults = 0
    /\ cache_lock = 0
    /\ pc = [f \in Files |-> IF f = 1 THEN "compress" ELSE "idle"]
    /\ file_hash = [f \in Files |-> IF f = 1 THEN ComputeFileHash(bytes[f]) ELSE NoHash]
    /\ collected = {}
    /\ processed = 0 /\ skipped = 0 /\ errors = 0
    /\ saves = 0 /\ prunes = 0

NextResize == ResizeImage

SpecResize == InitResize /\ [][NextResize]_vars

\* ------------------------- builds in a cache directory nobody else touches
\* The cache an earlier build under the same settings saved: one image.
PriorCache ==
    [isdict |-> TRUE,
     map |-> [d \in {ComputeFileHash(MaxBytes)} |-> CacheEntry(d, ".jpg")]]

\* A tree of NumFiles files; a cache directory that is fresh, or holds the
\* record of an earlier build with its artifact, or that record alone, the
\* artifact lost between the builds.
InitKeptDir ==
    /\ config \in {ConfigWith(D) : D \in SUBSET {"skip_images", "skip_videos", "max_workers"}}
    /\ \/ /\ cache_file = AbsentRecord
          /\ artifacts = NoArtifacts
       \/ /\ cache_file = SavedRecord(config, PriorCache)
          /\ artifacts \in {NoArtifacts,
                            [n \in {CachedFilename(ComputeFileHash(MaxBytes), ".jpg")}
                                |-> Encode(MaxBytes)]}
    /\ ext \in [Files -> TreeExtensions]
    /\ bytes \in [Files -> Bytes]
    /\ \A f \in Files : ext[f] = ".html" => bytes[f] = MaxBytes
    /\ cache = EmptyCache
    /\ loaded = EmptyCache
    /\ phase = "config"
    /\ run = 1
    /\ bytes0 = bytes
    /\ faults = 0
    /\ InitTasks

\* The plugin alone: every step but the deletion from outside.
NextKeptDir ==
    \/ OnConfig
    \/ FindMedia
    \/ CleanOrphans
    \/ Submit
    \/ \E f \in Files : Task(f)
    \/ \E f \in Files : Collect(f)
    \/ SaveCache
    \/ NextBuild

SpecKeptDir == InitKeptDir /\ [][NextKeptDir]_vars

\* ------------------------------------------------- builds that go on
\* The pool runs every task it has taken or can take, every hash, backend
\* and copy returns; the main thread goes on collecting and saving. Nothing
\* obliges the environment to delete a file or the user to build again.
Fairness ==
    /\ \A f \in Files : WF_vars(Task(f))
    /\ \A f \in Files : WF_vars(Collect(f))
    /\ WF_vars(SaveCache)

SpecFair == Init /\ [][Next]_vars /\ Fairness

\* =============================================================== claims
\* A build whose pool has run: it reached its final report through the save.
Reported == phase = "done" /\ saves = 1

BackendFailed == {f \in MediaFiles : pc[f] = "ret_failed"}
Raised == {f \in MediaFiles : pc[f] = "raised"}

\* C1 (as claimed): at the final report every file whose backend returned no
\* artifact is counted as an error, so errors = backend failures + raised
\* tasks, and such a file is in neither processed nor skipped.
C1_BackendFailureCountedAsError ==
    Reported =>
        /\ errors = Cardinality(BackendFailed) + Cardinality(Raised)
        /\ processed + skipped = Cardinality(MediaFiles \ (BackendFailed \cup Raised))

\* C2 (as claimed): a second build of the tree the first build left, with the
\* first build's record saved and nothing failing or deleted, changes no
\* file's bytes, processes nothing and counts every file as skipped.
C2_SecondRunAllSkipped ==
    (run = 2 /\ Reported /\ faults = 0) =>
        /\ bytes = bytes0
        /\ processed = 0
        /\ skipped = Cardinality(MediaFiles)

\* The record is not what _save_cache writes.
Malformed(rec) ==
    \/ rec.shape # "ok"
    \/ rec.hasfiles /\ ~rec.files.isdict
    \/ rec.hasfiles /\ \E d \in DOMAIN rec.files.map :
                           "cached_filename" \notin DOMAIN rec.files.map[d]

\* C3 (as claimed): whatever the persisted record holds, the build is never
\* aborted by loading and pruning it, and a malformed record gives the tasks
\* an empty cache.
C3_MalformedRecordNeverAborts ==
    /\ phase # "aborted"
    /\ (phase \in {"submit", "collect"} /\ Malformed(cache_file)) => cache = EmptyCache

SnapshotsAgree(rec, cfg) == \A k \in SnapshotKeys : rec.config[k] = cfg[k]

WellFormed(rec) == rec.shape = "ok" /\ rec.hasfiles /\ ~Malformed(rec)

\* C4: for a well-formed record, _load_cache returns the stored entries when
\* the stored snapshot agrees with the current settings on every recognized
\* key, and an empty entry set when they differ on any; max_workers and
\* cache_dir play no part.
C4_ConfigChangeInvalidation ==
    (phase # "config" /\ WellFormed(cache_file)) =>
        /\ SnapshotsAgree(cache_file, config) => loaded = cache_file.files
        /\ ~SnapshotsAgree(cache_file, config) => loaded = EmptyCache

\* C4 witnesses: stored entries returned although max_workers and cache_dir
\* differ from the defaults, and stored entries discarded for one changed key.
C4_Witness ==
    /\ phase # "config"
    /\ WellFormed(cache_file)
    /\ cache_file.files # EmptyCache
    /\ config.max_workers # DefaultConfig.max_workers
    /\ config.cache_dir # DefaultConfig.cache_dir
    /\ config.skip_videos
    /\ loaded = cache_file.files

\* The artifact the cache names for the hash task f computed.
EntryFile(f) == cache.map[file_hash[f]].cached_filename

\* C5: a task leaves the existence test for the copy only if the entry's
\* artifact exists at that moment, and otherwise goes on to the backend; and
\* a task returns from the hit path only after copying an artifact that was
\* there. Artifacts may be deleted from outside at any time of the pool's work.
C5_NoHitOnMissingArtifact ==
    [][\A f \in Files :
          /\ (pc[f] = "exists" /\ pc'[f] # "exists") =>
                IF EntryFile(f) \in DOMAIN artifacts
                THEN pc'[f] = "hitcopy"
                ELSE pc'[f] = "compress"
          /\ (pc[f] # "ret_hit" /\ pc'[f] = "ret_hit") =>
                /\ pc[f] = "hitcopy"
                /\ EntryFile(f) \in DOMAIN artifacts
                /\ bytes'[f] = artifacts[EntryFile(f)]]_vars

\* C5 witness: in the second build a task is at the backend although the
\* loaded and pruned cache holds its hash: the artifact was deleted after the
\* pruning, and the lookup was handled as a miss.
C5_Witness ==
    \E f \in MediaFiles :
        /\ run = 2
        /\ pc[f] = "compress"
        /\ file_hash[f] \in DOMAIN cache.map
        /\ file_hash[f] \in DOMAIN loaded.map
        /\ EntryFile(f) \notin DOMAIN artifacts
        /\ \A g \in Files \ {f} : pc[g] \in {"idle", "pending"}

\* The loaded entries whose artifact exists.
LoadedWithArtifact ==
    [d \in {x \in DOMAIN loaded.map : loaded.map[x].cached_filename \in DOMAIN artifacts}
        |-> loaded.map[d]]

C7_TaskExceptionIsolated ==
    /\ phase = "aborted" => \A f \in Files : pc[f] = "idle"
    /\ Reported =>
          /\ \A f \in MediaFiles : pc[f] \in Finished
          /\ errors = Cardinality(Raised)
          /\ processed + skipped + errors = Cardinality(MediaFiles)

\* C7 witness: a build reported one error for a task that raised and one
\* processed file.
C7_Witness ==
    /\ Reported
    /\ errors = 1
    /\ processed = 1
    /\ \E f \in MediaFiles : pc[f] = "raised"

SkipConfigured(f) ==
    \/ ext[f] \in IMAGE_EXTENSIONS /\ config.skip_images
    \/ ext[f] \in VIDEO_EXTENSIONS /\ config.skip_videos

\* C9: a media file whose kind is switched off is never hashed, never reaches
\* the lookup or a backend, keeps its bytes, and is counted as skipped.
C9_SkipFlags ==
    /\ \A f \in MediaFiles : SkipConfigured(f) =>
          /\ pc[f] \in {"idle", "pending", "ret_disabled"}
          /\ file_hash[f] = NoHash
          /\ bytes[f] = bytes0[f]
    /\ Reported =>
          skipped >= Cardinality({f \in MediaFiles : SkipConfigured(f)})

\* C9 witness: with skip_videos set and skip_images not, a build reported a
\* skipped video and a processed image.
C9_Witness ==
    /\ Reported
    /\ config.skip_videos /\ ~config.skip_images
    /\ skipped = 1 /\ processed = 1
    /\ \E f \in MediaFiles : IsVideo(f) /\ pc[f] = "ret_disabled"

\* C10: _save_cache is called at most once in a build, exactly once by the
\* final report of a build that found media files, only when every task has
\* finished and been collected; the cache is not written in the step that
\* saves nor after it.
C10_SaveOnceAfterAllTasks ==
    /\ [](/\ saves <= 1
          /\ saves = 1 => \A f \in MediaFiles : pc[f] \in Finished /\ f \in collected
          /\ (phase = "done" /\ MediaFiles # {}) => saves = 1)
    /\ [][(saves = 1 \/ saves' = 1) => cache' = cache]_vars

\* C10 witness: a build of two media files has saved the cache both put
\* their entries into.
C10_Witness ==
    /\ Reported
    /\ MediaFiles = Files
    /\ processed = Cardinality(Files)
    /\ cache_file = SavedRecord(config, cache)
    /\ DOMAIN cache.map # {}

\* C11: a worker reads the entry mapping (the lookup, and the entry it then
\* uses) and writes it (the insert) only while it holds the one cache lock:
\* a lookup or an insert starts only when the lock is free, a worker that
\* uses a looked-up entry is the lock's holder, and while a worker holds the
\* lock the mapping does not change; every entry a worker can observe is a
\* complete one, with its file name and its digest.
HoldsLock(f) == cache_lock = f

CompleteEntry(d) ==
    /\ DOMAIN cache.map[d] = {"cached_filename", "original_hash"}
    /\ cache.map[d].original_hash = d
    /\ cache.map[d].cached_filename[1] = d

C11_MapAccessUnderLock ==
    /\ [](\A f \in Files : pc[f] \in {"exists", "hitcopy"} => HoldsLock(f))
    /\ [](\A d \in DOMAIN cache.map : CompleteEntry(d))
    /\ [][\A f \in Files :
            /\ pc[f] = "lookup" /\ pc'[f] # "lookup" => cache_lock = 0
            /\ pc[f] = "insert" /\ pc'[f] # "insert" => cache_lock = 0
            /\ cache_lock # 0 => cache' = cache
            /\ cache' # cache /\ phase = "collect" =>
                  \E g \in Files : pc[g] = "insert" /\ pc'[g] = "replace"]_vars

\* Two workers look up the digest of an inserted entry: one has read the
\* entry and copied, the other holds the lock and reads the same entry.
C11_Witness ==
    \E f, g \in Files :
        /\ f # g
        /\ file_hash[f] = file_hash[g]
        /\ pc[f] = "ret_hit"
        /\ pc[g] = "hitcopy"
        /\ HoldsLock(g)
        /\ CompleteEntry(file_hash[g])

\* C12: the lock is held for the map lookup or insert only: no worker checks
\* that an artifact exists, or copies an artifact over an original, while it
\* holds the cache lock.
C12_NoFileIOUnderLock ==
    \A f \in Files : pc[f] \in {"exists", "hitcopy"} => ~HoldsLock(f)

\* C13: no worker holds the cache lock while it hashes its file or while a
\* backend runs for it, so that with a backend running and no worker on the
\* hit path the lock is free for another worker's lookup or insert.
C13_NoLockWhileHashingOrCompressing ==
    /\ \A f \in Files :
          pc[f] \in {"pending", "hash", "lookup", "compress", "encoding", "insert"}
             => ~HoldsLock(f)
    /\ \A f, g \in Files :
          /\ pc[f] \in {"hash", "compress", "encoding"}
          /\ pc[g] \in {"lookup", "insert"}
          /\ \A h \in Files : pc[h] \notin {"exists", "hitcopy"}
          => cache_lock = 0

\* A backend is writing one worker's artifact while another worker takes the
\* lock for its lookup and finds an entry.
C13_Witness ==
    \E f, g \in Files :
        /\ pc[f] = "encoding"
        /\ pc[g] = "exists"
        /\ HoldsLock(g)

\* C14: two workers that process byte-identical files at the same time and
\* both miss both run the backend; when the build is over the cache holds the
\* one entry for their digest, the entry's artifact exists, both files hold
\* the compressed bytes and both were counted as processed.
TwinMisses(f, g) ==
    /\ f # g
    /\ file_hash[f] = file_hash[g]
    /\ ext[f] = ext[g]
    /\ pc[f] = "ret_done"
    /\ pc[g] = "ret_done"

C14_TwinMissesBothReplaced ==
    \A f, g \in Files :
        Reported /\ faults = 0 /\ TwinMisses(f, g) =>
            /\ file_hash[f] \in DOMAIN cache.map
            /\ cache.map[file_hash[f]] = CacheEntry(file_hash[f], ext[f])
            /\ EntryFile(f) \in DOMAIN artifacts
            /\ bytes[f] = Encode(bytes0[f])
            /\ bytes[g] = Encode(bytes0[g])
            /\ processed = 2

\* C15: a save of the cache record that fails does not end the run in
\* failure: the step that saves, failed or not, takes the run to its report
\* with the counts it had, and changes no file of the tree, so that every
\* file already replaced keeps its compressed bytes.
SaveFailed == cache_file # SavedRecord(config, cache)

C15_SaveFailureNotFatal ==
    /\ [](saves > 0 => phase = "done")
    /\ [][saves' = saves + 1 =>
            /\ phase' = "done"
            /\ UNCHANGED <<bytes, processed, skipped, errors, cache, artifacts>>]_vars
    /\ [][phase = "done" => bytes' = bytes]_vars

\* The save failed, the run has reported, and a file replaced by its
\* compressed artifact holds the compressed bytes.
C15_Witness ==
    /\ Reported
    /\ SaveFailed
    /\ processed >= 1
    /\ \E f \in Files :
          /\ pc[f] = "ret_done"
          /\ bytes[f] = Encode(bytes0[f])
          /\ bytes[f] # bytes0[f]

\* C16: nothing is retried. Within a build a task only moves forward through
\* the stages of _process_media_file, so that a file is dispatched once,
\* hashed at most once and given to a backend at most once; the digest is
\* set by the hash step alone; a step in which the hash, the decoding, the
\* subprocess or a copy fails is the task's last, and a finished task stays
\* finished.
Stage(s) ==
    CASE s = "idle" -> 0
      [] s = "pending" -> 1
      [] s = "hash" -> 2
      [] s = "lookup" -> 3
      [] s = "exists" -> 4
      [] s = "hitcopy" -> 5
      [] s = "compress" -> 6
      [] s = "encoding" -> 7
      [] s = "insert" -> 8
      [] s = "replace" -> 9
      [] OTHER -> 10

C16_NoRetries ==
    [][run' = run =>
        \A f \in Files :
            /\ pc'[f] # pc[f] => Stage(pc'[f]) > Stage(pc[f])
            /\ pc[f] \in Finished => pc'[f] = pc[f]
            /\ pc'[f] = "pending" /\ pc[f] # "pending" => phase = "submit"
            /\ pc'[f] = "hash" /\ pc[f] # "hash" => pc[f] = "pending"
            /\ file_hash'[f] # file_hash[f] => pc[f] = "hash" /\ pc'[f] = "lookup"
            /\ pc'[f] = "encoding" /\ pc[f] # "encoding" => pc[f] = "compress"
            /\ pc'[f] # pc[f] /\ faults' # faults => pc'[f] \in Finished
            /\ pc[f] = "compress" /\ pc'[f] # pc[f] /\ ~Decodable(bytes[f])
                  => pc'[f] = "ret_failed"
            /\ pc[f] = "encoding" /\ pc'[f] # pc[f]
                  /\ CachedFilename(file_hash[f], ext[f]) \notin DOMAIN artifacts
                  => pc'[f] = "ret_failed"]_vars

\* A build has reported with one task ended by a failed hash and counted
\* as an error, the file never hashed again.
C16_Witness ==
    /\ Reported
    /\ errors = 1
    /\ \E f \in Files :
          /\ pc[f] = "raised"
          /\ file_hash[f] = NoHash
          /\ f \in collected
          /\ bytes[f] = bytes0[f]

\* C17: on a cache hit whose artifact exists the task goes to the copy,
\* copies the entry's artifact over the original and returns the hit; the
\* hit is reached from the copy only, never by way of a backend; the hit
\* path changes neither the entry mapping nor the artifacts; a returned hit
\* is counted as skipped.
C17_HitCopiesAndSkips ==
    [][\A f \in Files :
        /\ pc[f] = "exists" /\ pc'[f] # pc[f] /\ EntryFile(f) \in DOMAIN artifacts
              => pc'[f] = "hitcopy" /\ UNCHANGED <<cache, artifacts, bytes>>
        /\ pc'[f] = "hitcopy" => pc[f] \in {"exists", "hitcopy"}
        /\ pc[f] = "hitcopy" /\ pc'[f] # pc[f]
              => /\ pc'[f] \in {"ret_hit", "raised"}
                 /\ UNCHANGED <<cache, artifacts>>
                 /\ pc'[f] = "ret_hit" => bytes'[f] = artifacts[EntryFile(f)]
                 /\ EntryFile(f) \in DOMAIN artifacts /\ faults' = faults
                       => pc'[f] = "ret_hit"
        /\ pc'[f] = "ret_hit" /\ pc[f] # "ret_hit" => pc[f] = "hitcopy"
        /\ pc[f] = "ret_hit" /\ f \in collected' \ collected
              => /\ skipped' = skipped + 1
                 /\ UNCHANGED <<processed, errors, cache>>]_vars

\* A task hit the cache, overwrote its file with the artifact's different
\* bytes and was counted as skipped.
C17_Witness ==
    \E f \in Files :
        /\ pc[f] = "ret_hit"
        /\ f \in collected
        /\ skipped >= 1
        /\ processed + errors + skipped = Cardinality(collected)
        /\ file_hash[f] \in DOMAIN cache.map
        /\ EntryFile(f) \in DOMAIN artifacts
        /\ bytes[f] = artifacts[EntryFile(f)]
        /\ bytes[f] # bytes0[f]

\* C18: in a tree without a file of a recognized extension the build
\* returns at once: it goes from the search straight to its end, nothing is
\* pruned, no task is dispatched, nothing is saved, the cache in memory stays
\* as it was loaded and the record in the cache directory, the artifacts and
\* the tree stay as they were.
C18_NoMediaReturnsAtOnce ==
    /\ [](MediaFiles = {} =>
            /\ prunes = 0
            /\ saves = 0
            /\ phase \in {"config", "built", "done"}
            /\ \A f \in Files : pc[f] = "idle"
            /\ collected = {}
            /\ phase # "config" => cache = loaded)
    /\ [][MediaFiles = {} /\ phase = "built" =>
            /\ phase' = "done"
            /\ UNCHANGED <<cache, cache_file, artifacts, bytes>>]_vars

\* A build over a tree without media has ended with its loaded cache still
\* holding an entry whose artifact is missing: nothing was pruned.
C18_Witness ==
    /\ MediaFiles = {}
    /\ phase = "done"
    /\ cache = loaded
    /\ cache.isdict
    /\ \E d \in DOMAIN cache.map :
          /\ "cached_filename" \in DOMAIN cache.map[d]
          /\ cache.map[d].cached_filename \notin DOMAIN artifacts

\* C19: for every source size and every configured maximum width and/or
\* height, the size after the resize block exceeds no configured maximum
\* and neither dimension of the source, is the source size when the source
\* is within the bounds, and comes from one scale factor applied to both
\* dimensions (the aspect ratio is kept up to the truncation to whole
\* pixels); 4000x2000 under a maximum width of 1000 and no maximum height
\* becomes exactly 1000x500.
Max(a, b) == IF a >= b THEN a ELSE b
Abs(a) == IF a >= 0 THEN a ELSE 0 - a

WithinBounds(size, max_width, max_height) ==
    /\ max_width = None \/ size[1] <= max_width
    /\ max_height = None \/ size[2] <= max_height

C19_ResizeBound ==
    img.state = "sized" =>
        /\ config.image_max_width # None => img.out[1] <= config.image_max_width
        /\ config.image_max_height # None => img.out[2] <= config.image_max_height
        /\ img.out[1] <= img.size[1]
        /\ img.out[2] <= img.size[2]
        /\ WithinBounds(img.size, config.image_max_width, config.image_max_height)
              => img.out = img.size
        /\ Abs(img.out[1] * img.size[2] - img.out[2] * img.size[1])
              <= Max(img.size[1], img.size[2])
        /\ (/\ img.size = <<4000, 2000>>
            /\ config.image_max_width = 1000
            /\ config.image_max_height = None) => img.out = <<1000, 500>>

\* The 4000x2000 image under a maximum width of 1000 has been resized to
\* 1000x500.
C19_Witness ==
    /\ img.state = "sized"
    /\ img.size = <<4000, 2000>>
    /\ config.image_max_width = 1000
    /\ config.image_max_height = None
    /\ img.out = <<1000, 500>>

\* C20: a copy over an original never reads an artifact that another worker
\* is writing at that moment: every file a task has replaced, on the hit
\* path or after its own compression, holds a completely written artifact.
C20_CopyReadsCompleteArtifact ==
    \A f \in Files : pc[f] \in {"ret_hit", "ret_done"} => bytes[f] # Truncated

\* C21: with no artifact deleted from outside, from the end of the pruning
\* until the save every entry of the cache names an artifact that exists;
\* the mapping changes during the pool's work by inserts only, and an insert
\* happens when the task's artifact exists, under the digest of the task's
\* source file, with that digest as the entry's original hash and the digest
\* followed by the file's suffix as its file name, all other entries left
\* as they were.
EntriesHaveArtifacts ==
    \A d \in DOMAIN cache.map : cache.map[d].cached_filename \in DOMAIN artifacts

C21_EntriesReferenceArtifacts ==
    /\ [](phase \in {"submit", "collect"} => EntriesHaveArtifacts)
    /\ [][phase = "clean" /\ phase' = "submit" => EntriesHaveArtifacts']_vars
    /\ [][phase = "collect" /\ cache' # cache =>
            \E f \in Files :
                /\ pc[f] = "insert" /\ pc'[f] = "replace"
                /\ file_hash[f] = ComputeFileHash(bytes[f])
                /\ <<file_hash[f], ext[f]>> \in DOMAIN artifacts
                /\ DOMAIN cache'.map = DOMAIN cache.map \cup {file_hash[f]}
                /\ cache'.map[file_hash[f]].cached_filename = <<file_hash[f], ext[f]>>
                /\ cache'.map[file_hash[f]].original_hash = file_hash[f]
                /\ \A d \in DOMAIN cache.map \ {file_hash[f]} :
                      cache'.map[d] = cache.map[d]]_vars

\* The pruning removed a loaded entry whose artifact was lost, and a task has
\* inserted the entry of the artifact it wrote.
C21_Witness ==
    /\ phase = "collect"
    /\ DOMAIN loaded.map \ DOMAIN cache.map # {}
    /\ \E f \in Files :
          /\ pc[f] = "replace"
          /\ file_hash[f] \in DOMAIN cache.map
          /\ file_hash[f] \notin DOMAIN loaded.map
          /\ EntryFile(f) = <<file_hash[f], ext[f]>>
          /\ EntryFile(f) \in DOMAIN artifacts

\* C22: the cache lock is held by no task outside its critical section (a
\* task that returned or raised has released it) and is taken only when
\* free; under fair scheduling, every hash, backend and copy returning, a
\* task waiting for the lock at its lookup or at its insert gets past it,
\* every dispatched task finishes, and the build whose tasks were dispatched
\* reaches the save and its final report.
C22_DeadlockFreeTermination ==
    /\ [](\A f \in Files : HoldsLock(f) => pc[f] \in {"exists", "hitcopy"})
    /\ [][\A f \in Files : ~HoldsLock(f) /\ HoldsLock(f)' => cache_lock = 0]_vars
    /\ \A f \in Files : (pc[f] = "lookup") ~> (pc[f] \in {"exists", "compress"})
    /\ \A f \in Files : (pc[f] = "insert") ~> (pc[f] = "replace")
    /\ \A f \in Files : (pc[f] = "pending") ~> (pc[f] \in Finished)
    /\ (phase = "collect") ~> Reported

\* A task waits at its insert for the lock that another task holds across
\* its copy.
C22_Witness ==
    \E f, g \in Files :
        /\ pc[f] = "hitcopy"
        /\ HoldsLock(f)
        /\ pc[g] = "insert"

====
